---------------------------- MODULE Spec2Model ----------------------------
(***************************************************************************)
(* A model of pyplr.oceanops.adaptive_measurement (the adaptive search for *)
(* a spectrometer integration time) and of the time-series cleaning        *)
(* functions of pyplr.preproc.                                             *)
(*                                                                         *)
(* NUMBERS.  intgt, lower_intgt and upper_intgt are Python floats.  A      *)
(* float is modelled as a binary floating-point number with MantBits       *)
(* significant bits and round-to-nearest, ties-to-even (IEEE 754 double is *)
(* MantBits = 53).  Every time is held as an integer count of 1/Scale      *)
(* microseconds, Scale = 2^(MantBits-9): every float >= 512 is an even     *)
(* count, so the difference of two of them halves exactly (as it does in   *)
(* Python) and the only rounding is the one Python does, that of the final *)
(* sum of `intgt -= d/2` and of `intgt += d/2`.                            *)
(* Intensities are held on the same scale (counts * Scale).  The products  *)
(* maximum_intensity * .8 and * .9 are compared as exact fractions 8/10    *)
(* and 9/10: for integer counts the double rounding of .8 and .9 never     *)
(* changes the outcome of a comparison.                                    *)
(***************************************************************************)
EXTENDS Integers, Sequences, FiniteSets, TLC

VARIABLES
    dev,          \* the spectrometer: limits, max_intensity, readout behaviour
    setting,      \* the caller's `setting` argument
    pc,           \* position in adaptive_measurement
    intgt,        \* local intgt (scaled)
    lower_intgt,  \* local lower_intgt: None or Some(t)
    upper_intgt,  \* local upper_intgt: None or Some(t)
    max_reported, \* local max_reported (scaled)
    temps,        \* local temps: None (unbound) or Some(capture)
    oo_counts,    \* local oo_counts: None (unbound) or Some(capture)
    applied,      \* the device's integration time register: None or Some(t)
    hw_calls,     \* the kinds of device calls issued so far
    iter,         \* number of passes through the loop body (saturates at IterCap)
    taken,        \* the update branches executed so far
    info,         \* the returned oo_info_dict: None until the return
    \* pyplr.preproc: one call of a cleaning function by a caller
    samples,      \* the caller's DataFrame object
    passed,       \* its contents when the call was made
    result,       \* the DataFrame returned: None before the return
    aliased,      \* the returned object is the caller's object
    call,         \* the function called and its arguments: None before the call
    ppc           \* "ready", "returned", "raised"; "off" while no caller runs

amVars == <<dev, setting, pc, intgt, lower_intgt, upper_intgt, max_reported,
            temps, oo_counts, applied, hw_calls, iter, taken, info>>
ppVars == <<samples, passed, result, aliased, call, ppc>>
vars == <<amVars, ppVars>>

---------------------------------------------------------------------------
(* Bounds of the model *)

MantBits == 10
IterCap == 12

(* Program constants *)

StartTime == 1000
LowerTenths == 8
UpperTenths == 9

---------------------------------------------------------------------------
(* Optional values: Python's None and unbound locals *)

None == << >>
Some(v) == <<v>>
Val(o) == o[1]

Min(a, b) == IF a <= b THEN a ELSE b
Max(a, b) == IF a >= b THEN a ELSE b

RECURSIVE Pow2(_)
Pow2(n) == IF n <= 0 THEN 1 ELSE 2 * Pow2(n - 1)

Scale == Pow2(MantBits - 9)

(* a time in microseconds (an int or an exactly representable float) on the grid *)
Micros(us) == us * Scale

(* The spacing of the floats around v >= 0 (v on the grid): 1 grid step while v *)
(* has at most MantBits bits, doubling with every further bit.                  *)
RECURSIVE Quantum(_)
Quantum(v) == IF v < Pow2(MantBits) THEN 1 ELSE 2 * Quantum(v \div 2)

(* round-to-nearest, ties-to-even, of the exact grid value v >= 0 *)
RoundFloat(v) ==
    LET q  == Quantum(v)
        lo == (v \div q) * q
        r  == v - lo
    IN  IF 2 * r < q THEN lo
        ELSE IF 2 * r > q THEN lo + q
        ELSE IF (lo \div q) % 2 = 0 THEN lo ELSE lo + q

---------------------------------------------------------------------------
(* The device (an external collaborator): its descriptor and its readout *)

Limits == { <<1, 65535>>, <<1, 4000>>, <<3800, 65535>>, <<10, 500>>,
            <<1, 1000>>, <<5000, 5000>>, <<6000, 2000>> }
MaxIntensities == { 16384, 0, -1 }
DeterministicKinds == { "linear", "step", "dark", "bright" }
AnyLimits == { <<1, 65535>>, <<1, 4000>>, <<3800, 65535>> }

Devices ==
    [lims : Limits, max_intensity : MaxIntensities, kind : DeterministicKinds]
    \cup [lims : AnyLimits, max_intensity : {16384}, kind : {"any"}]

(* the setting argument: empty, a light-source tag, and two settings whose *)
(* key is also a key of the info record                                    *)
Settings ==
    { << >>, [led |-> 5], [integration_time |-> 7],
      [board_temp |-> [ch |-> 0, cap |-> [at |-> 0, n |-> 0]]] }

(* the keys of oo_info_dict (lines 106-109) that the claims read *)
InfoKeys == { "board_temp", "micro_temp", "integration_time" }

integration_time_micros_limits(d) == d.lims
maximum_intensity(d) == d.max_intensity

(* full scale of the readout: raw counts are never negative *)
FullScale(d) == Max(0, d.max_intensity) * Scale

(* max(spectrometer.intensities()) at exposure t (scaled), as a set of the *)
(* values one read may give: a singleton for a deterministic device.       *)
(*   linear: min(full scale, 4 * exposure)    step: 0 below 3000, then full *)
(*   dark: 0    bright: full scale    any: each read is below, inside or    *)
(*   above the target band                                                  *)
Readings(d, t) ==
    CASE d.kind = "linear" -> { Min(FullScale(d), 4 * t) }
      [] d.kind = "step"   -> { IF t < Micros(3000) THEN 0 ELSE FullScale(d) }
      [] d.kind = "dark"   -> { 0 }
      [] d.kind = "bright" -> { FullScale(d) }
      [] OTHER             -> { 0, (FullScale(d) * 17) \div 20, FullScale(d) }

---------------------------------------------------------------------------
(* adaptive_measurement: the expressions of the loop *)

BelowLower_UpperBound(d, p) == 10 * p < UpperTenths * d.max_intensity * Scale

(* max_reported < lower_bound, lower_bound = maximum_intensity * .8 *)
BelowLower(d, p) == 10 * p < LowerTenths * maximum_intensity(d) * Scale

(* max_reported > upper_bound, upper_bound = maximum_intensity * .9 *)
AboveUpper(d, p) == 10 * p > UpperTenths * maximum_intensity(d) * Scale

WhileCond_LowerOnly(d, p) == BelowLower(d, p)

(* line 56 *)
WhileCond(d, p) == BelowLower(d, p) \/ AboveUpper(d, p)

Clamp(d, t) ==
    IF t >= Micros(integration_time_micros_limits(d)[2])
    THEN Micros(integration_time_micros_limits(d)[2])
    ELSE t

ReachedLimit_Greater(d, t) == t > Micros(d.lims[2])

(* line 81 *)
ReachedLimit(d, t) == t = Micros(integration_time_micros_limits(d)[2])

TakesDouble_NoPeakTest(d, p, up) == up = None

(* line 87 *)
TakesDouble(d, p, up) == BelowLower(d, p) /\ up = None

TakesBisectDown(d, p, up) == ~TakesDouble(d, p, up) /\ AboveUpper(d, p)

TakesBisectUp(d, p, up) ==
    /\ ~TakesDouble(d, p, up)
    /\ ~TakesBisectDown(d, p, up)
    /\ BelowLower(d, p) /\ up # None

RecordLower_Forgotten(t) == None

(* lower_intgt = intgt (lines 88 and 103) *)
RecordLower(t) == Some(t)

DoubleTime(t) == 2 * t

BisectDownTime_Sum(t, lo, up) == RoundFloat(t - (up + lo) \div 2)

(* intgt -= (upper_intgt - lower_intgt) / 2, with upper_intgt = intgt *)
BisectDownTime(t, lo, up) == RoundFloat(t - (up - lo) \div 2)

(* intgt += (upper_intgt - lower_intgt) / 2, with lower_intgt = intgt *)
BisectUpTime(t, lo, up) == RoundFloat(t + (up - lo) \div 2)

(* {**oo_info_dict, **setting} *)
Merge(base, extra) ==
    [k \in (DOMAIN base) \cup (DOMAIN extra) |->
        IF k \in DOMAIN extra THEN extra[k] ELSE base[k]]

Bump(n) == IF n < IterCap THEN n + 1 ELSE n

---------------------------------------------------------------------------
(* adaptive_measurement: the state machine *)

NoCaller ==
    /\ samples = None /\ passed = None /\ result = None
    /\ aliased = FALSE /\ call = None /\ ppc = "off"

Entry ==
    /\ pc = "while"
    /\ intgt = Micros(StartTime)
    /\ lower_intgt = None
    /\ upper_intgt = None
    /\ max_reported = 0
    /\ temps = None
    /\ oo_counts = None
    /\ applied = None
    /\ hw_calls = {}
    /\ iter = 0
    /\ taken = {}
    /\ info = None

Init ==
    /\ dev \in Devices
    /\ setting \in Settings
    /\ Entry
    /\ NoCaller

(* line 56: the loop test; when it fails, control passes to line 106 *)
WhileTest ==
    /\ pc = "while"
    /\ pc' = IF WhileCond(dev, max_reported) THEN "set" ELSE "build"
    /\ UNCHANGED <<ppVars, dev, setting, intgt, lower_intgt, upper_intgt, max_reported,
                   temps, oo_counts, applied, hw_calls, iter, taken, info>>

(* lines 60-65: clamp to the upper limit, set the integration time *)
SetIntegrationTime ==
    /\ pc = "set"
    /\ intgt' = Clamp(dev, intgt)
    /\ applied' = Some(intgt')
    /\ hw_calls' = hw_calls \cup {"set"}
    /\ iter' = Bump(iter)
    /\ pc' = "temps"
    /\ UNCHANGED <<ppVars, dev, setting, lower_intgt, upper_intgt, max_reported,
                   temps, oo_counts, taken, info>>

(* lines 68-69: temperature_get_all() *)
ReadTemperatures ==
    /\ pc = "temps"
    /\ temps' = Some([at |-> Val(applied), n |-> iter])
    /\ hw_calls' = hw_calls \cup {"temps"}
    /\ pc' = "counts"
    /\ UNCHANGED <<ppVars, dev, setting, intgt, lower_intgt, upper_intgt, max_reported,
                   oo_counts, applied, iter, taken, info>>

(* lines 72-77: intensities() and their maximum *)
ReadIntensities ==
    /\ pc = "counts"
    /\ \E p \in Readings(dev, Val(applied)) :
          /\ oo_counts' = Some([at |-> Val(applied), n |-> iter, peak |-> p])
          /\ max_reported' = p
    /\ hw_calls' = hw_calls \cup {"intensities"}
    /\ pc' = "update"
    /\ UNCHANGED <<ppVars, dev, setting, intgt, lower_intgt, upper_intgt,
                   temps, applied, iter, taken, info>>

(* lines 81-82: the upper limit is reached: break *)
Break ==
    /\ pc = "update"
    /\ ReachedLimit(dev, intgt)
    /\ pc' = "build"
    /\ taken' = taken \cup {"break"}
    /\ UNCHANGED <<ppVars, dev, setting, intgt, lower_intgt, upper_intgt, max_reported,
                   temps, oo_counts, applied, hw_calls, iter, info>>

(* lines 87-89 *)
Double ==
    /\ pc = "update"
    /\ ~ReachedLimit(dev, intgt)
    /\ TakesDouble(dev, max_reported, upper_intgt)
    /\ lower_intgt' = RecordLower(intgt)
    /\ intgt' = DoubleTime(intgt)
    /\ taken' = taken \cup {"double"}
    /\ pc' = "while"
    /\ UNCHANGED <<ppVars, dev, setting, upper_intgt, max_reported,
                   temps, oo_counts, applied, hw_calls, iter, info>>

(* lines 94-96; with lower_intgt None the subtraction raises TypeError, *)
(* after upper_intgt was assigned                                       *)
BisectDown ==
    /\ pc = "update"
    /\ ~ReachedLimit(dev, intgt)
    /\ TakesBisectDown(dev, max_reported, upper_intgt)
    /\ upper_intgt' = Some(intgt)
    /\ taken' = taken \cup {"bisect_down"}
    /\ IF lower_intgt = None
       THEN /\ pc' = "TypeError"
            /\ intgt' = intgt
       ELSE /\ pc' = "while"
            /\ intgt' = BisectDownTime(intgt, Val(lower_intgt), intgt)
    /\ UNCHANGED <<ppVars, dev, setting, lower_intgt, max_reported,
                   temps, oo_counts, applied, hw_calls, iter, info>>

(* lines 102-104 *)
BisectUp ==
    /\ pc = "update"
    /\ ~ReachedLimit(dev, intgt)
    /\ TakesBisectUp(dev, max_reported, upper_intgt)
    /\ lower_intgt' = RecordLower(intgt)
    /\ intgt' = BisectUpTime(intgt, intgt, Val(upper_intgt))
    /\ taken' = taken \cup {"bisect_up"}
    /\ pc' = "while"
    /\ UNCHANGED <<ppVars, dev, setting, upper_intgt, max_reported,
                   temps, oo_counts, applied, hw_calls, iter, info>>

(* no branch of the if/elif chain applies: back to the loop test *)
NoUpdate ==
    /\ pc = "update"
    /\ ~ReachedLimit(dev, intgt)
    /\ ~TakesDouble(dev, max_reported, upper_intgt)
    /\ ~TakesBisectDown(dev, max_reported, upper_intgt)
    /\ ~TakesBisectUp(dev, max_reported, upper_intgt)
    /\ pc' = "while"
    /\ UNCHANGED <<ppVars, dev, setting, intgt, lower_intgt, upper_intgt, max_reported,
                   temps, oo_counts, applied, hw_calls, iter, taken, info>>

(* lines 106-113: build the info dict, merge the setting, return; with the *)
(* loop never entered, temps is unbound and line 106 raises                *)
BuildInfo ==
    /\ pc = "build"
    /\ IF temps = None
       THEN /\ pc' = "UnboundLocalError"
            /\ info' = info
       ELSE /\ pc' = "done"
            /\ info' = Some(Merge([board_temp       |-> [ch |-> 0, cap |-> Val(temps)],
                                   micro_temp       |-> [ch |-> 2, cap |-> Val(temps)],
                                   integration_time |-> intgt,
                                   model            |-> "model"],
                                  setting))
    /\ UNCHANGED <<ppVars, dev, setting, intgt, lower_intgt, upper_intgt, max_reported,
                   temps, oo_counts, applied, hw_calls, iter, taken>>

Next ==
    \/ WhileTest
    \/ SetIntegrationTime
    \/ ReadTemperatures
    \/ ReadIntensities
    \/ Break
    \/ Double
    \/ BisectDown
    \/ BisectUp
    \/ NoUpdate
    \/ BuildInfo

Spec == Init /\ [][Next]_vars

(* The runs on the devices whose peak is a function of the exposure.  The *)
(* function is one synchronous thread: it always takes its next step.     *)
InitDeterministic == Init /\ dev.kind \in DeterministicKinds

FairSpec == InitDeterministic /\ [][Next]_vars /\ WF_vars(Next)

---------------------------------------------------------------------------
(* pyplr.preproc: DataFrames                                               *)
(*                                                                         *)
(* A DataFrame is its index (timestamps, in ticks) and its columns, each a *)
(* sequence of cells; a cell is NaN or Num(v).  Diameters are multiples of *)
(* 6 and confidences are in tenths, so that every linear interpolation and *)
(* every mean the functions take over the frames below is an exact         *)
(* integer.  A function body works on an object: "caller" (the DataFrame   *)
(* the caller passed) or "copy" (samples.copy(deep=True), or the new       *)
(* object a pandas call with inplace=False returns).                       *)

MaxRows == 3
LongRows == 7

NaN == << >>
Num(v) == <<v>>
NumOf(x) == x[1]

Rows(f) == Len(f.index)

DataFrame(ix, d, c) == [index |-> ix, cols |-> [diameter |-> d, confidence |-> c]]

Indexes(n) ==
    { ix \in [1..n -> 10..(10 + 2 * (n - 1))] :
        ix[1] = 10 /\ \A i \in 1..(n - 1) : ix[i + 1] - ix[i] \in {1, 2} }

Diameters == { Num(0), Num(6), Num(12), NaN }
Confidences == { Num(5), Num(9) }

ShortFrames ==
    { DataFrame(ix, d, c) :
        ix \in Indexes(MaxRows),
        d \in [1..MaxRows -> Diameters],
        c \in [1..MaxRows -> Confidences] }

LongDiameters ==
    { [i \in 1..LongRows |-> Num(12)],
      [i \in 1..LongRows |-> IF i = 4 THEN Num(0) ELSE Num(12)],
      [i \in 1..LongRows |-> IF i = 4 THEN NaN ELSE Num(12)],
      [i \in 1..LongRows |-> Num(6 * (i % 3))] }

LongFrames ==
    { DataFrame([i \in 1..LongRows |-> 9 + i], d, [i \in 1..LongRows |-> Num(9)]) :
        d \in LongDiameters }

(* the blink tables: start_timestamp and end_timestamp of each blink *)
BlinkTables ==
    { << >> } \cup { << <<a, b>> >> : a \in 10..13, b \in 10..13 }
    \cup { << <<10, 10>>, <<12, 14>> >> }

---------------------------------------------------------------------------
(* pyplr.preproc: the pandas and scipy operations the functions call *)

(* df[name] = col *)
SetColumn(f, name, col) ==
    [f EXCEPT !.cols = [k \in (DOMAIN f.cols) \cup {name} |->
                            IF k = name THEN col ELSE f.cols[k]]]

(* df.loc[rows, name] = value (the column exists) *)
SetCells(f, rows, name, v) ==
    SetColumn(f, name, [i \in 1..Rows(f) |-> IF i \in rows THEN v ELSE f.cols[name][i]])

(* df[mask] = nan: every column of the rows *)
SetRowsNaN(f, rows) ==
    [f EXCEPT !.cols = [k \in DOMAIN f.cols |->
                            [i \in 1..Rows(f) |-> IF i \in rows THEN NaN ELSE f.cols[k][i]]]]

(* Series.diff() *)
Diff(col) ==
    [i \in 1..Len(col) |->
        IF i = 1 \/ col[i] = NaN THEN NaN
        ELSE IF col[i - 1] = NaN THEN NaN
        ELSE Num(NumOf(col[i]) - NumOf(col[i - 1]))]

RECURSIVE SumTo(_, _)
SumTo(g, n) == IF n = 0 THEN 0 ELSE g[n] + SumTo(g, n - 1)

(* (d < (m-s)) | (d > (m+s)), m the mean and s = threshold * the standard  *)
(* deviation (ddof 1) of the cells of d that are not NaN: with N such      *)
(* cells of sum S, |d[i] - S/N| > s is                                     *)
(*   (N-1) * (N*d[i] - S)^2 > threshold^2 * sum_j (N*d[j] - S)^2.          *)
(* With fewer than two cells s is NaN and no comparison is true.           *)
OutsideBand(d, threshold, i) ==
    LET valid == { j \in 1..Len(d) : d[j] # NaN }
        N  == Cardinality(valid)
        S  == SumTo([j \in 1..Len(d) |-> IF j \in valid THEN NumOf(d[j]) ELSE 0], Len(d))
        Q  == SumTo([j \in 1..Len(d) |->
                        IF j \in valid THEN (N * NumOf(d[j]) - S) * (N * NumOf(d[j]) - S)
                        ELSE 0], Len(d))
        dv == N * NumOf(d[i]) - S
    IN  /\ d[i] # NaN
        /\ N >= 2
        /\ (N - 1) * dv * dv > threshold * threshold * Q

(* Series.interpolate(method='linear'): NaN cells after the first valid    *)
(* cell are filled, linearly in the row number between two valid cells and *)
(* with the last valid cell after it; leading NaN cells stay.              *)
Interpolate(col) ==
    [i \in 1..Len(col) |->
        IF col[i] # NaN THEN col[i]
        ELSE LET before == { j \in 1..(i - 1) : col[j] # NaN }
                 after  == { j \in (i + 1)..Len(col) : col[j] # NaN }
             IN  IF before = {} THEN NaN
                 ELSE LET a == CHOOSE j \in before : \A k \in before : k <= j
                      IN  IF after = {} THEN col[a]
                          ELSE LET b == CHOOSE j \in after : \A k \in after : j <= k
                               IN  Num(NumOf(col[a])
                                       + ((NumOf(col[b]) - NumOf(col[a])) * (i - a))
                                             \div (b - a))]

(* DataFrame.interpolate(method='linear', axis=0): every column *)
InterpolateFrame(f) ==
    [f EXCEPT !.cols = [k \in DOMAIN f.cols |-> Interpolate(f.cols[k])]]

(* Series.fillna(method='bfill') *)
BFill(col) ==
    [i \in 1..Len(col) |->
        LET after == { j \in i..Len(col) : col[j] # NaN }
        IN  IF after = {} THEN NaN
            ELSE col[CHOOSE j \in after : \A k \in after : j <= k]]

(* Series.fillna(method='ffill') *)
FFill(col) ==
    [i \in 1..Len(col) |->
        LET before == { j \in 1..i : col[j] # NaN }
        IN  IF before = {} THEN NaN
            ELSE col[CHOOSE j \in before : \A k \in before : k <= j]]

(* DataFrame.fillna(method='bfill', inplace=True) *)
BFillFrame(f) == [f EXCEPT !.cols = [k \in DOMAIN f.cols |-> BFill(f.cols[k])]]

(* DataFrame.fillna(method='ffill', inplace=True) *)
FFillFrame(f) == [f EXCEPT !.cols = [k \in DOMAIN f.cols |-> FFill(f.cols[k])]]

(* scipy.interpolate.interp1d(x, y)(xn), linear: the segment is the one    *)
(* numpy.searchsorted picks (the first knot >= xn, kept within 2..n, and   *)
(* the knot before it); a NaN at either knot gives NaN.                    *)
Interp1d(x, y, xn) ==
    LET n   == Len(x)
        ge  == { j \in 2..n : x[j] >= xn }
        hi  == IF ge = {} THEN n ELSE CHOOSE j \in ge : \A k \in ge : j <= k
        lo  == hi - 1
    IN  IF y[lo] = NaN \/ y[hi] = NaN THEN NaN
        ELSE Num(NumOf(y[lo])
                 + ((NumOf(y[hi]) - NumOf(y[lo])) * (xn - x[lo])) \div (x[hi] - x[lo]))

(* scipy.signal.filtfilt needs more than padlen = 3 * max(len(A), len(B)) *)
(* samples, and butter(N, ...) gives N + 1 coefficients                   *)
PadLen(filt_order) == 3 * (filt_order + 1)

(* What filtfilt(B, A, x) may return.  One NaN makes every sample NaN (the *)
(* filter is recursive and runs in both directions); otherwise the values  *)
(* are reals the model does not compute: any sequence of cells.            *)
FiltFilt(x) ==
    IF \E i \in 1..Len(x) : x[i] = NaN
    THEN { [i \in 1..Len(x) |-> NaN] }
    ELSE [1..Len(x) -> { Num(6), Num(12) }]

(* scipy.signal.savgol_filter(x, 3, 1): the mean of each window of three, *)
(* and at both ends the least-squares line through the three end samples; *)
(* a NaN in a window gives NaN                                            *)
Savgol3(x) ==
    LET n == Len(x)
        w(i) == IF i = 1 THEN {1, 2, 3} ELSE IF i = n THEN {n - 2, n - 1, n}
                ELSE {i - 1, i, i + 1}
        v(i) == NumOf(x[i])
    IN  [i \in 1..n |->
            IF \E j \in w(i) : x[j] = NaN THEN NaN
            ELSE IF i = 1 THEN Num((5 * v(1) + 2 * v(2) - v(3)) \div 6)
            ELSE IF i = n THEN Num((5 * v(n) + 2 * v(n - 1) - v(n - 2)) \div 6)
            ELSE Num((v(i - 1) + v(i) + v(i + 1)) \div 3)]

---------------------------------------------------------------------------
(* pyplr.preproc: the bodies of the functions, on the default columns.    *)
(* Each gives the object the function returns: obj ("caller" or "copy")   *)
(* and its contents at the return.                                        *)

Object(obj, f) == [obj |-> obj, frame |-> f]

(* lines 34-42; period is 1 / sample_rate in ticks *)
even_samples_body(samps, period) ==
    LET n    == Rows(samps)
        x    == [i \in 1..n |-> samps.index[i] - samps.index[1]]
        xnew == [i \in 1..n |-> (i - 1) * period]
        y    == samps.cols["diameter"]
        f1   == SetColumn(samps, "diameter", [i \in 1..n |-> Interp1d(x, y, xnew[i])])
    IN  Object("caller", [f1 EXCEPT !.index = xnew])

(* interp1d raises ValueError for a value of xnew above the last knot *)
even_samples_raises(samps, period) ==
    (Rows(samps) - 1) * period > samps.index[Rows(samps)] - samps.index[1]

(* lines 80-88 *)
mask_pupil_first_derivative_body(smpls, threshold) ==
    LET samps == smpls
        d     == Diff(smpls.cols["diameter"])
        f1    == SetColumn(samps, "diameter",
                     [i \in 1..Rows(samps) |->
                         IF OutsideBand(d, threshold, i) THEN NaN
                         ELSE samps.cols["diameter"][i]])
        zeros == { i \in 1..Rows(f1) : f1.cols["diameter"][i] = Num(0) }
    IN  Object("copy", SetRowsNaN(f1, zeros))

LowConfidence(f, threshold) ==
    { i \in 1..Rows(f) :
        f.cols["confidence"][i] # NaN /\ NumOf(f.cols["confidence"][i]) < threshold }

(* lines 111-113; threshold in tenths *)
mask_pupil_confidence_body(smpls, threshold) ==
    Object("copy", SetCells(smpls, LowConfidence(smpls, threshold), "diameter", NaN))

(* lines 132-137 *)
interpolate_pupil_body(smpls) ==
    LET n  == Rows(smpls)
        f1 == SetColumn(smpls, "interpolated",
                  [i \in 1..n |-> IF smpls.cols["diameter"][i] = NaN THEN Num(1) ELSE Num(0)])
    IN  Object("copy", SetColumn(f1, "diameter", Interpolate(f1.cols["diameter"])))

(* lines 161-166 *)
pupil_confidence_filter_body(smpls, threshold) ==
    LET indices == LowConfidence(smpls, threshold)
        f1 == SetCells(smpls, indices, "diameter", NaN)
    IN  Object("copy", SetColumn(f1, "interpolated",
                           [i \in 1..Rows(f1) |-> IF i \in indices THEN Num(1) ELSE Num(0)]))

(* lines 190-195: the rows whose label lies in samples.loc[start:end] of a blink *)
ev_row_idxs(smpls, blinks) ==
    { i \in 1..Rows(smpls) :
        \E k \in 1..Len(blinks) :
            blinks[k][1] <= smpls.index[i] /\ smpls.index[i] <= blinks[k][2] }

(* lines 202-203 *)
get_mask_idxs(smpls, blinks) == ev_row_idxs(smpls, blinks)

(* lines 223-228 *)
mask_blinks_body(smpls, blinks) ==
    LET indices == get_mask_idxs(smpls, blinks)
        f1 == SetCells(smpls, indices, "diameter", NaN)
    IN  Object("copy", SetColumn(f1, "interpolated",
                           [i \in 1..Rows(f1) |-> IF i \in indices THEN Num(1) ELSE Num(0)]))

(* lines 250-256 *)
interpolate_blinks_body(smpls, blinks) ==
    Object("copy", InterpolateFrame(mask_blinks_body(smpls, blinks).frame))

(* lines 270-273 *)
mask_zeros_body(smpls) ==
    Object("copy", SetRowsNaN(smpls, { i \in 1..Rows(smpls) : smpls.cols["diameter"][i] = Num(0) }))

(* lines 285-291 *)
interpolate_zeros_body(smpls) ==
    Object("copy", FFillFrame(BFillFrame(InterpolateFrame(mask_zeros_body(smpls).frame))))

(* line 305 and line 321: samps = samples if inplace else samples.copy(deep=True) *)
FilterObject(inplace) == IF inplace THEN "caller" ELSE "copy"

(* lines 305-309: the objects butterworth_series may return *)
butterworth_series_body(smpls, inplace) ==
    { Object(FilterObject(inplace), SetColumn(smpls, "diameter", y)) :
        y \in FiltFilt(smpls.cols["diameter"]) }

butterworth_series_raises(smpls, filt_order) == Rows(smpls) <= PadLen(filt_order)

(* lines 321-324, for window_length 3 and filt_order 1 *)
savgol_series_body(smpls, inplace) ==
    Object(FilterObject(inplace), SetColumn(smpls, "diameter", Savgol3(smpls.cols["diameter"])))

(* savgol_filter raises ValueError for a window longer than the series *)
savgol_series_raises(smpls, window_length) == window_length > Rows(smpls)

---------------------------------------------------------------------------
(* pyplr.preproc: a caller makes one call *)

Returns(fn, inplace, o) ==
    /\ ppc = "ready"
    /\ call' = Some([fn |-> fn, inplace |-> inplace])
    /\ passed' = Some(samples)
    /\ result' = Some(o.frame)
    /\ aliased' = (o.obj = "caller")
    /\ samples' = IF o.obj = "caller" THEN o.frame ELSE samples
    /\ ppc' = "returned"
    /\ UNCHANGED amVars

(* the call raises before it assigns anything *)
Raises(fn, inplace) ==
    /\ ppc = "ready"
    /\ call' = Some([fn |-> fn, inplace |-> inplace])
    /\ passed' = Some(samples)
    /\ ppc' = "raised"
    /\ UNCHANGED <<amVars, samples, result, aliased>>

even_samples ==
    \E period \in {1, 2} :
        IF even_samples_raises(samples, period)
        THEN Raises("even_samples", FALSE)
        ELSE Returns("even_samples", FALSE, even_samples_body(samples, period))

mask_pupil_first_derivative ==
    \E threshold \in {1, 3} :
        Returns("mask_pupil_first_derivative", FALSE,
                mask_pupil_first_derivative_body(samples, threshold))

mask_pupil_confidence ==
    Returns("mask_pupil_confidence", FALSE, mask_pupil_confidence_body(samples, 8))

interpolate_pupil ==
    Returns("interpolate_pupil", FALSE, interpolate_pupil_body(samples))

pupil_confidence_filter ==
    Returns("pupil_confidence_filter", FALSE, pupil_confidence_filter_body(samples, 8))

mask_blinks ==
    \E blinks \in BlinkTables :
        Returns("mask_blinks", FALSE, mask_blinks_body(samples, blinks))

interpolate_blinks ==
    \E blinks \in BlinkTables :
        Returns("interpolate_blinks", FALSE, interpolate_blinks_body(samples, blinks))

mask_zeros ==
    Returns("mask_zeros", FALSE, mask_zeros_body(samples))

interpolate_zeros ==
    Returns("interpolate_zeros", FALSE, interpolate_zeros_body(samples))

butterworth_series ==
    \E filt_order \in {1, 3}, inplace \in BOOLEAN :
        IF butterworth_series_raises(samples, filt_order)
        THEN Raises("butterworth_series", inplace)
        ELSE \E o \in butterworth_series_body(samples, inplace) :
                Returns("butterworth_series", inplace, o)

savgol_series ==
    \E window_length \in {3, 51}, inplace \in BOOLEAN :
        IF savgol_series_raises(samples, window_length)
        THEN Raises("savgol_series", inplace)
        ELSE Returns("savgol_series", inplace, savgol_series_body(samples, inplace))

InitPreproc ==
    /\ dev = [lims |-> <<1, 65535>>, max_intensity |-> 16384, kind |-> "linear"]
    /\ setting = << >>
    /\ Entry
    /\ samples \in ShortFrames \cup LongFrames
    /\ passed = None
    /\ result = None
    /\ aliased = FALSE
    /\ call = None
    /\ ppc = "ready"

NextPreproc ==
    \/ even_samples
    \/ mask_pupil_first_derivative
    \/ mask_pupil_confidence
    \/ interpolate_pupil
    \/ pupil_confidence_filter
    \/ mask_blinks
    \/ interpolate_blinks
    \/ mask_zeros
    \/ interpolate_zeros
    \/ butterworth_series
    \/ savgol_series

SpecPreproc == InitPreproc /\ [][NextPreproc]_vars

---------------------------------------------------------------------------
(* Properties of adaptive_measurement *)

MaxTime == Micros(dev.lims[2])
MinTime == Micros(dev.lims[1])
Returned == pc = "done"
PeakOfReadout == Val(oo_counts).peak

(* the target band [0.80, 0.90] * max_intensity, on the scaled counts *)
InTargetBand(p) ==
    /\ 10 * p >= 8 * dev.max_intensity * Scale
    /\ 10 * p <= 9 * dev.max_intensity * Scale

ValidDescriptor == dev.lims[1] < dev.lims[2] /\ dev.max_intensity > 0
Deterministic == dev.kind \in DeterministicKinds

(* C1: whenever adaptive_measurement returns on a device with max_intensity *)
(* > 0, the peak of the returned readout is within [0.80, 0.90] *           *)
(* max_intensity or the final integration time is the device's upper limit. *)
C1_BandOrSaturated ==
    (Returned /\ dev.max_intensity > 0)
        => (InTargetBand(PeakOfReadout) \/ intgt = MaxTime)

(* a return inside the band, below the maximum, after doubling and both bisections *)
C1_Witness ==
    /\ Returned /\ dev.max_intensity > 0 /\ dev.kind = "any"
    /\ InTargetBand(PeakOfReadout) /\ intgt # MaxTime
    /\ {"double", "bisect_down", "bisect_up"} \subseteq taken

(* some exposure the device accepts below its maximum reads inside the band *)
BandEnteredBelowMax ==
    \E t \in MinTime .. (MaxTime - 1) :
        \E p \in Readings(dev, t) : InTargetBand(p)

C2_Goal ==
    /\ Returned
    /\ \/ InTargetBand(PeakOfReadout)
       \/ (~BandEnteredBelowMax /\ intgt = MaxTime)

(* C2: on a device whose peak is a deterministic function of the exposure,  *)
(* adaptive_measurement terminates, returning a readout whose peak is in    *)
(* the band, unless the peak never enters the band below the device         *)
(* maximum, in which case it returns at the device's maximum exposure.      *)
C2_TerminatesInBandOrAtMax == (Deterministic /\ ValidDescriptor) => <>C2_Goal

Degenerate == dev.lims[1] >= dev.lims[2] \/ dev.max_intensity <= 0

(* C3: with a degenerate descriptor (min_time >= max_time or max_intensity  *)
(* <= 0) the function fails with a configuration error before the loop is   *)
(* entered and before any call to the device.                               *)
C3_RejectsDegenerate ==
    Degenerate => (hw_calls = {} /\ pc \in {"while", "InvalidConfiguration"})

(* C4: every integration time applied to the device lies within the         *)
(* device's limits [min_time, max_time] (stated here for the descriptors    *)
(* with min_time < max_time and max_intensity > 0).                         *)
C4_AppliedWithinLimits ==
    (applied # None /\ ValidDescriptor)
        => (MinTime <= Val(applied) /\ Val(applied) <= MaxTime)

Scenario ==
    dev = [lims |-> <<1, 65535>>, max_intensity |-> 16384, kind |-> "linear"]

C5_Goal ==
    /\ Returned
    /\ Micros(3277) <= intgt /\ intgt <= Micros(3686)
    /\ 10 * PeakOfReadout >= 131072 * Scale
    /\ 10 * PeakOfReadout <= 147456 * Scale

C5_WithinTen == iter <= 10

(* C5: on the device with limits [1, 65535], max_intensity 16384 and        *)
(* peak(exposure) = min(16384, 4 * exposure), the search from 1000 returns  *)
(* within at most 10 iterations, at an exposure in 3277..3686 with the peak *)
(* inside [13107.2, 14745.6].                                               *)
C5_Scenario == Scenario => ([]C5_WithinTen /\ <>C5_Goal)

(* the scenario has returned, through doubling, bisect-down and bisect-up *)
C5_Witness ==
    /\ Scenario /\ Returned
    /\ taken = {"double", "bisect_down", "bisect_up"}
    /\ Val(applied) = intgt

(* the peak is below the lower target at every exposure up to the maximum:  *)
(* the deterministic readouts are non-decreasing in the exposure, so it is  *)
(* enough that the readout at the maximum is below                          *)
DimDevice ==
    /\ Deterministic
    /\ dev.max_intensity > 0
    /\ \A p \in Readings(dev, MaxTime) : 10 * p < 8 * dev.max_intensity * Scale

C6_OnlyDoubling == taken \subseteq {"double", "break"}

C6_Goal == Returned /\ intgt = MaxTime /\ applied = Some(MaxTime)

(* C6: when the peak stays below the lower target at every exposure up to   *)
(* the maximum, only the doubling branch is ever taken and the function     *)
(* returns with the integration time equal to the device's maximum.         *)
C6_DimDeviceSaturates == DimDevice => ([]C6_OnlyDoubling /\ <>C6_Goal)

(* a dim device with limit 65535 has returned at the limit after doubling *)
C6_Witness ==
    /\ DimDevice /\ Returned
    /\ taken = {"double", "break"}
    /\ dev.lims[2] = 65535 /\ intgt = MaxTime

(* the first reading is above the upper target and the starting time is     *)
(* below the device maximum                                                 *)
FirstReadingAbove ==
    /\ iter = 1
    /\ oo_counts # None
    /\ 10 * PeakOfReadout > 9 * dev.max_intensity * Scale
    /\ StartTime < dev.lims[2]

(* C8: the bisect-downward branch runs with lower_intgt unset (and raises)  *)
(* exactly when the very first reading is above the upper target while the  *)
(* starting time is below the device maximum; in every other execution of   *)
(* the branch lower_intgt is set.                                           *)
C8_UnsetLowerOnlyOnFirstReading ==
    /\ pc = "TypeError" => FirstReadingAbove
    /\ FirstReadingAbove => pc \in {"update", "TypeError"}
    /\ (pc # "TypeError" /\ "bisect_down" \in taken) => lower_intgt # None

(* the first reading at 1000 was above the band: TypeError with lower_intgt unset *)
C8_Witness ==
    /\ pc = "TypeError" /\ lower_intgt = None /\ upper_intgt = Some(Micros(StartTime))

BracketStep(strict) ==
    /\ upper_intgt # None
         => (upper_intgt' # None /\ Val(upper_intgt') <= Val(upper_intgt))
    /\ lower_intgt # None
         => (lower_intgt' # None /\ Val(lower_intgt') >= Val(lower_intgt))
    /\ (lower_intgt' # None /\ upper_intgt' # None)
         => /\ IF strict THEN Val(lower_intgt') < Val(upper_intgt')
                         ELSE Val(lower_intgt') <= Val(upper_intgt')
            /\ Val(lower_intgt') <= intgt' /\ intgt' <= Val(upper_intgt')

(* C9 as stated: the bracket only tightens: upper_intgt, once set, is never *)
(* unset and never increases, lower_intgt never decreases, and whenever     *)
(* both are set lower_intgt < upper_intgt with intgt between them.          *)
C9_BracketStrict == [][BracketStep(TRUE)]_vars

(* C9 amended: the same, with lower_intgt <= upper_intgt: at the limit of   *)
(* the float precision a reading taken at a bound can contradict the        *)
(* reading that set it, and the two bounds meet.                            *)
C9_BracketTightens == [][BracketStep(FALSE)]_vars

(* after bisecting both ways the two bounds have met *)
C9_Witness ==
    /\ lower_intgt # None /\ upper_intgt # None
    /\ lower_intgt = upper_intgt
    /\ {"bisect_down", "bisect_up"} \subseteq taken

ReturnsFinalCapture ==
    /\ Val(info)["integration_time"] = Val(applied)
    /\ Val(oo_counts).at = Val(applied) /\ Val(oo_counts).n = iter
    /\ Val(temps).at = Val(applied) /\ Val(temps).n = iter
    /\ Val(info)["board_temp"].cap = Val(temps)
    /\ Val(info)["micro_temp"].cap = Val(temps)

(* C10 as stated: on every return the info record's 'integration_time' is   *)
(* the time last applied to the device, and the returned readout and        *)
(* temperatures were captured at that time.                                 *)
C10_InfoMatchesDevice == Returned => ReturnsFinalCapture

(* C10 amended: the same, provided the caller's setting has none of the     *)
(* keys 'integration_time', 'board_temp', 'micro_temp' (the setting is      *)
(* merged over the record).                                                 *)
C10_InfoMatchesDeviceUnlessOverridden ==
    (Returned /\ (DOMAIN setting) \cap InfoKeys = {}) => ReturnsFinalCapture

(* a return after a bisection, with a setting {'led': 5} merged into the record *)
C10_Witness ==
    /\ Returned /\ (DOMAIN setting) \cap InfoKeys = {}
    /\ "led" \in DOMAIN Val(info)
    /\ "bisect_up" \in taken

---------------------------------------------------------------------------
(* Properties of pyplr.preproc *)

(* C7: every cleaning function returns a modified copy and leaves the      *)
(* caller's series, values and index, unchanged (a call that asks for      *)
(* inplace=True aside).                                                    *)
C7_CallerSeriesUnchanged ==
    (ppc = "returned" /\ ~Val(call).inplace)
        => (samples = Val(passed) /\ ~aliased)

=============================================================================
